---- MODULE Spec2Model ----
(***************************************************************************)
(* Model of the Radiozoa address configuration (radiozoa/configure.py,     *)
(* radiozoa/radiozoa_config.py, radiozoa/device.py): the top-level         *)
(* Configure.configure(force) call, the RadiozoaConfig it builds, the      *)
(* XSHUT pins it drives and the VL53 sensors that answer on the I2C bus.   *)
(***************************************************************************)
EXTENDS Integers, FiniteSets, Sequences, TLC

(* ------------------------------------------------------------------ *)
(* Bounds and program constants                                        *)
(* ------------------------------------------------------------------ *)

\* number of slots of the Device table that the model carries (the board has 8)
NumDevices == 2

\* Configure._default_i2c_address / RadiozoaConfig._default_i2c_address: 0x29
DEFAULT_I2C_ADDRESS == 41

\* i2c_address of the device with index 0 (0x30); device i has 0x30 + i
TARGET_BASE == 48

\* range(5): presence polls per device in _configure_sensor_addresses
POLL_RETRIES == 5

Dev == 0 .. (NumDevices - 1)

\* Device.impl: 'VL53L0X', 'VL53L1X' or None (no sensor in the slot)
Variants == {"VL53L0X", "VL53L1X", "None"}

\* Device.i2c_address of the table rows N0..NW7: 0x30 + index
i2c_address(d) == TARGET_BASE + d

VARIABLES
    impl,            \* Device._impl per table index (fixed after load)
    pin,             \* physical level of each XSHUT line: "high" / "low"
    addr,            \* address each sensor answers at; 0 = not answering
    pc,              \* position of the Configure.configure call
    force,           \* argument of the call
    devices,         \* Configure._devices / last scan of Configure._scanner
    has_default,     \* local _has_default
    missing,         \* local _missing
    radiozoa_config, \* Configure._radiozoa_config is set
    xshut_pins,      \* keys of RadiozoaConfig._xshut_pins
    k,               \* index of the device the current loop is at
    attempt,         \* loop variable i of the presence polls
    found,           \* local found
    result,          \* what the call returned: "none", "True", "False", "raised"
    exc,             \* the exception that ended the run, "none" if none
    drivenLow,       \* devices whose pin got pin.off() in this run
    drivenHigh,      \* devices whose pin got pin.on() in this run
    seen,            \* per device: outcome of its presence polls in this run
    wr,              \* per device: outcome of its address change in this run
    sent,            \* per device: the address-change writes issued in this run
    phases,          \* phases of this run that have completed
    prescan,         \* what the first scan of this run showed (ScanKind)
    sensors,         \* RadiozoaSensor._sensors: the handle of each table row
    is_ranging,      \* RadiozoaSensor._is_ranging
    acall,           \* the last call made on the RadiozoaSensor and its outcome
    enabled,         \* Sensor._enabled
    task,            \* Sensor._task: id of the task, 0 for None
    tstate,          \* per task id: where the poll-loop task is
    cancelreq,       \* per task id: cancel() was accepted, CancelledError pending
    cur,             \* the task that is running, 0 when no poll task is
    radiozoa,        \* Sensor._radiozoa is set (TRUE) or None (FALSE)
    distances,       \* Sensor._distances
    led_i,           \* index of the enumerate loop over the distances
    lcall,           \* the last call made on the Sensor and its outcome
    midcall,         \* disable() ran between a batch read and its last LED push
    lateread,        \* a task did a batch read after its cancel() was accepted
    iterexc,         \* per task: the exception of its latest iteration
    poll_delay_ms,   \* Sensor._poll_delay_ms
    rcall,           \* the last call of set_poll_rate_hz and its outcome,
                     \* and what poll_rate_hz returned when read after it
    ccall            \* the last call of _color_for_distance and its result

arrayVars == << sensors, is_ranging, acall >>

loopVars == << enabled, task, tstate, cancelreq, cur, radiozoa, distances,
               led_i, lcall, midcall, lateread, iterexc >>

settingVars == << poll_delay_ms, rcall, ccall >>

ranging == << arrayVars, loopVars, settingVars >>

vars == << impl, pin, addr, pc, force, devices, has_default, missing,
           radiozoa_config, xshut_pins, k, attempt, found, result,
           exc, drivenLow, drivenHigh, seen, wr, sent, phases, prescan,
           sensors, is_ranging, acall, enabled, task, tstate, cancelreq, cur,
           radiozoa, distances, led_i, lcall, midcall, lateread, iterexc,
           poll_delay_ms, rcall, ccall >>

physical == << pin, addr >>
history  == << drivenLow, drivenHigh, seen, wr, sent, phases, prescan >>

(* ------------------------------------------------------------------ *)
(* The bus                                                             *)
(* ------------------------------------------------------------------ *)

\* I2CScanner.scan(): the addresses at which an enabled sensor answers
BusView == { addr[d] : d \in { e \in Dev : pin[e] = "high" /\ addr[e] # 0 } }

\* I2CScanner.has_hex_address(a) on the result of the last scan
has_hex_address(view, a) == a \in view

\* what a scan shows, as the claims about the first scan of a run put it:
\* only the factory default address, the state configuration aims at
\* (default absent, the address of every table row present), or neither
ScanKind(view) ==
    IF view = {DEFAULT_I2C_ADDRESS} THEN "only_default"
    ELSE IF /\ DEFAULT_I2C_ADDRESS \notin view
            /\ \A d \in Dev : (TARGET_BASE + d) \in view THEN "configured"
    ELSE "other"

\* the sensors that take a write addressed to 0x29
AtDefault == { d \in Dev : pin[d] = "high" /\ addr[d] = DEFAULT_I2C_ADDRESS }

(* ------------------------------------------------------------------ *)
(* Configure.configure: pure parts                                     *)
(* ------------------------------------------------------------------ *)

\* _sensor_addresses = [ dev.i2c_address for dev in Device.all() ]
SensorAddresses == { i2c_address(d) : d \in Dev }

\* _missing = [ addr for addr in _sensor_addresses if not has_hex_address(addr) ]
Missing(view) == { a \in SensorAddresses : ~ has_hex_address(view, a) }

NeedsConfigureIgnoresForce(f, hd, ms) == hd \/ ms # {}

NeedsConfigureAlways(f, hd, ms) == TRUE

\* if force or _has_default or _missing:
NeedsConfigure(f, hd, ms) == f \/ hd \/ ms # {}

VerifyResultIgnoresMissing(hd, ms) == IF hd THEN "False" ELSE "True"

\* the returns after the re-scan: False if the default address is present,
\* False if an address is missing, True otherwise
VerifyResult(hd, ms) ==
    IF hd THEN "False" ELSE IF ms # {} THEN "False" ELSE "True"

HandlerResultEscapes == "raised"

\* except Exception as e: log; return False
HandlerResult == "False"

(* ------------------------------------------------------------------ *)
(* RadiozoaConfig: pure parts                                          *)
(* ------------------------------------------------------------------ *)

\* _setup_pins: a Pin for every device whose impl is not None
SetupPins == { d \in Dev : impl[d] # "None" }

NotFoundBreaks == "break"

\* if not found: warning; continue
NotFoundGoes == "continue"

\* _set_i2c_address(device, new_addr): the bus write it issues, to
\* current_addr = 0x29.  VL53L1X: writeto(0x29, [0x00, 0x01, new_addr]);
\* VL53L0X: writeto_mem(0x29, 0x8A, [new_addr]), 0x8A = 138.
SetI2cAddress(variant, new_addr) ==
    IF variant = "VL53L1X"
    THEN [to |-> DEFAULT_I2C_ADDRESS, call |-> "writeto",
          bytes |-> << 0, 1, new_addr >>]
    ELSE [to |-> DEFAULT_I2C_ADDRESS, call |-> "writeto_mem",
          bytes |-> << 138, new_addr >>]

WriteErrorPropagates == TRUE

\* except Exception as e: inside the device loop; the loop goes on
WriteErrorAborts == FALSE

WriteEffectNone(new_addr) == addr

\* the sensors answering at 0x29 take the new address
WriteEffect(new_addr) ==
    [ d \in Dev |-> IF d \in AtDefault THEN new_addr ELSE addr[d] ]

\* RadiozoaSensor._create_sensors: the handle bound for a table row,
\* "null" when sensor = None
CreateSensor(variant) ==
    IF variant = "VL53L0X" THEN "VL53L0X"
    ELSE IF variant = "VL53L1X" THEN "VL53L1X"
    ELSE "null"

\* Sensor._poll_loop, the branch on _device.impl of one table row: TRUE when
\* it is the else branch, raise ValueError("unrecognised sensor type")
PollVariantRaises(variant) ==
    ~ (variant = "VL53L0X" \/ variant = "VL53L1X")

(* ------------------------------------------------------------------ *)
(* RadiozoaSensor: pure parts                                          *)
(* ------------------------------------------------------------------ *)

\* Sensor.OUT_OF_RANGE
OUT_OF_RANGE == 9999

\* RadiozoaSensor._distance_offset
DISTANCE_OFFSET == 50

\* what a driver call does in one call of the array: a raw reading in mm
\* (for start() and stop(): 0, it returned), or RAISES
RAISES == -1

RawValues == {0, 50, 51, 75}

Outcomes == RawValues \cup {RAISES}

StartOutcomes == {0, RAISES}

Max(a, b) == IF a >= b THEN a ELSE b

CorrectedNoFloor(raw) == raw - DISTANCE_OFFSET

\* max(0, sensor.read() - self._distance_offset)
Corrected(raw) == Max(0, raw - DISTANCE_OFFSET)

SensorNameImported == TRUE

\* the imports of radiozoa_sensor.py: the name Sensor is bound by none of
\* them, so evaluating Sensor.OUT_OF_RANGE raises NameError
SensorNameDefined == FALSE

\* return Sensor.OUT_OF_RANGE / distances.append(Sensor.OUT_OF_RANGE)
SentinelEntry ==
    IF SensorNameDefined
       THEN [raised |-> FALSE, value |-> OUT_OF_RANGE]
       ELSE [raised |-> TRUE, value |-> 0]

\* the body of get_distance, and of one turn of the loops of get_distances,
\* for a handle and what its read() does
ReadEntry(handle, out) ==
    IF handle # "null"
       THEN IF out # RAISES
               THEN [raised |-> FALSE, value |-> Corrected(out)]
               ELSE SentinelEntry
       ELSE SentinelEntry

\* get_distance(cardinal): what is returned, or that the call raised
GetDistance(d, outs) ==
    LET e == ReadEntry(sensors[d], outs[d])
    IN  [raised |-> e.raised,
         ret |-> IF e.raised THEN << >> ELSE << e.value >>]

RECURSIVE ReadFrom(_, _, _)
\* get_distances(): the loop over Cardinal._registry from position i on,
\* with the list built so far
ReadFrom(i, acc, outs) ==
    IF i = NumDevices
       THEN [raised |-> FALSE, ret |-> acc]
       ELSE LET e == ReadEntry(sensors[i], outs[i])
            IN  IF e.raised
                   THEN [raised |-> TRUE, ret |-> << >>]
                   ELSE ReadFrom(i + 1, Append(acc, e.value), outs)

\* get_distances() with cardinals=None
GetDistances(outs) == ReadFrom(0, << >>, outs)

RangingGuardNone(op, r) == TRUE

\* if not self._is_ranging: (start_ranging) / if self._is_ranging: (stop_ranging)
RangingGuard(op, r) == IF op = "start" THEN ~ r ELSE r

DriverErrorEscapes == FALSE

\* the try/except around sensor.start() / sensor.stop() inside the loop
DriverErrorCaught == TRUE

RECURSIVE InvokeFrom(_, _, _)
\* the loop of start_ranging / stop_ranging over the handles from position i
\* on, with the set of handles whose start() / stop() was called so far
InvokeFrom(i, acc, outs) ==
    IF i = NumDevices
       THEN [raised |-> FALSE, invoked |-> acc]
       ELSE IF sensors[i] = "null"
               THEN InvokeFrom(i + 1, acc, outs)
               ELSE IF outs[i] = RAISES /\ ~ DriverErrorCaught
                       THEN [raised |-> TRUE, invoked |-> acc \cup {i}]
                       ELSE InvokeFrom(i + 1, acc \cup {i}, outs)

\* the record of "no call yet" on the RadiozoaSensor
NoCall ==
    [op |-> "none", arg |-> 0, outs |-> [d \in Dev |-> 0], was |-> FALSE,
     raised |-> FALSE, ret |-> << >>, invoked |-> {}]

(* ------------------------------------------------------------------ *)
(* Sensor: pure parts                                                  *)
(* ------------------------------------------------------------------ *)

\* number of poll-loop tasks that the model lets enable() create
MaxTasks == 3

Tasks == 1 .. MaxTasks

\* (Sensor.OUT_OF_RANGE,) * Sensor.SENSOR_COUNT
InitDistances == [i \in 1 .. NumDevices |-> OUT_OF_RANGE]

\* the record of "no call yet" on the Sensor
\* no iteration of the task has ended yet, or the latest ended normally
NoException == [exc |-> "none", escaped |-> FALSE]

\* Sensor.__init__: _poll_delay_ms = 50
POLL_DELAY_MS == 50

NOT_READ == -1

NoRateCall == [op |-> "none", rate |-> 0, raised |-> FALSE, before |-> 0,
               read |-> NOT_READ]

NoColorCall == [op |-> "none", distance |-> 0, max |-> 0, out |-> << >>]

\* Sensor.__init__: the poll period; no setter or mapping has been called
NoSettings ==
    /\ poll_delay_ms = POLL_DELAY_MS
    /\ rcall = NoRateCall
    /\ ccall = NoColorCall

NoSensorCall ==
    [op |-> "none", was |-> FALSE, changed |-> FALSE, result |-> "none"]

PollsAgainAlways(i) == TRUE

\* "for i in range(5)": after a poll with loop variable i that did not
\* see the factory address another poll follows when i + 1 is in range
PollsAgain(i) == i + 1 < POLL_RETRIES

FirstPhaseBringUp == "powerup"

\* RadiozoaConfig.configure: _shutdown_all_sensors() comes first, then
\* _configure_sensor_addresses()
FirstPhase == "shutdown"

\* the index after d in Device.all(), NumDevices when the loop is over
NextDevice(d) == d + 1

(* ------------------------------------------------------------------ *)
(* Initial state: the board has just been powered.  The XSHUT lines    *)
(* are high and no sensor answers yet; a sensor that works starts      *)
(* answering at 0x29 some time later (SensorBoot), a broken one never  *)
(* does.                                                               *)
(* ------------------------------------------------------------------ *)

\* Configure.__init__, on the board as it is after power-on
InitConfigure ==
    /\ pin = [d \in Dev |-> "high"]
    /\ addr = [d \in Dev |-> 0]
    /\ pc = "idle"
    /\ force = FALSE
    /\ devices = {}
    /\ has_default = FALSE
    /\ missing = {}
    /\ radiozoa_config = FALSE
    /\ xshut_pins = {}
    /\ k = 0
    /\ attempt = 0
    /\ found = FALSE
    /\ result = "none"
    /\ exc = "none"
    /\ drivenLow = {}
    /\ drivenHigh = {}
    /\ seen = [d \in Dev |-> "none"]
    /\ wr = [d \in Dev |-> "none"]
    /\ sent = [d \in Dev |-> << >>]
    /\ phases = {}
    /\ prescan = "none"

\* no RadiozoaSensor has been built
NoArray ==
    /\ sensors = [d \in Dev |-> "null"]
    /\ is_ranging = FALSE
    /\ acall = NoCall

\* no Sensor has been built
NoLoop ==
    /\ enabled = FALSE
    /\ task = 0
    /\ tstate = [t \in Tasks |-> "unborn"]
    /\ cancelreq = [t \in Tasks |-> FALSE]
    /\ cur = 0
    /\ radiozoa = FALSE
    /\ distances = InitDistances
    /\ led_i = 0
    /\ lcall = NoSensorCall
    /\ midcall = FALSE
    /\ lateread = FALSE
    /\ iterexc = [t \in Tasks |-> NoException]
    /\ NoSettings

Init ==
    /\ impl \in [Dev -> Variants]
    /\ InitConfigure
    /\ NoArray
    /\ NoLoop

(* ------------------------------------------------------------------ *)
(* The sensors                                                         *)
(* ------------------------------------------------------------------ *)

\* a sensor whose XSHUT is high and that does not answer yet comes up at
\* the factory default address
SensorBoot(d) ==
    /\ impl[d] # "None"
    /\ pin[d] = "high"
    /\ addr[d] = 0
    /\ addr' = [addr EXCEPT ![d] = DEFAULT_I2C_ADDRESS]
    /\ UNCHANGED ranging
    /\ UNCHANGED << impl, pin, pc, force, devices, has_default, missing,
                    radiozoa_config, xshut_pins, k, attempt, found,
                    result, exc, history >>

(* ------------------------------------------------------------------ *)
(* Configure.configure(force)                                          *)
(* ------------------------------------------------------------------ *)

\* an exception that reaches the except clause of Configure.configure
Abort(e) ==
    /\ exc' = e
    /\ result' = HandlerResult
    /\ pc' = "done"

\* the call: configure(force=f)
Call(f) ==
    /\ pc \in {"idle", "done"}
    /\ pc' = "prescan"
    /\ force' = f
    /\ result' = "none"
    /\ exc' = "none"
    /\ k' = 0
    /\ attempt' = 0
    /\ found' = FALSE
    /\ drivenLow' = {}
    /\ drivenHigh' = {}
    /\ seen' = [d \in Dev |-> "none"]
    /\ wr' = [d \in Dev |-> "none"]
    /\ sent' = [d \in Dev |-> << >>]
    /\ phases' = {}
    /\ prescan' = "none"
    /\ has_default' = FALSE
    /\ missing' = {}
    /\ UNCHANGED ranging
    /\ UNCHANGED << impl, physical, devices, radiozoa_config, xshut_pins >>

\* self._devices = self._scanner.scan() and the test that follows it
PreScan ==
    /\ pc = "prescan"
    /\ devices' = BusView
    /\ prescan' = ScanKind(BusView)
    /\ phases' = phases \cup {"prescan"}
    /\ has_default' = has_hex_address(BusView, DEFAULT_I2C_ADDRESS)
    /\ missing' = Missing(BusView)
    /\ IF NeedsConfigure(force, has_default', missing')
          THEN pc' = "construct" /\ UNCHANGED result
          ELSE pc' = "done" /\ result' = "True"
    /\ UNCHANGED ranging
    /\ UNCHANGED << impl, physical, force, radiozoa_config, xshut_pins,
                    k, attempt, found, exc, drivenLow, drivenHigh,
                    seen, wr, sent >>

\* the first scan raises
PreScanRaises ==
    /\ pc = "prescan"
    /\ Abort("scan")
    /\ UNCHANGED ranging
    /\ UNCHANGED << impl, physical, force, devices, has_default, missing,
                    radiozoa_config, xshut_pins, k, attempt, found,
                    history >>

\* self._radiozoa_config = RadiozoaConfig(i2c_id=1)
Construct ==
    /\ pc = "construct"
    /\ radiozoa_config' = TRUE
    /\ xshut_pins' = SetupPins
    /\ k' = 0
    /\ pc' = FirstPhase
    /\ UNCHANGED ranging
    /\ UNCHANGED << impl, physical, force, devices, has_default, missing,
                    attempt, found, result, exc, history >>

\* RadiozoaConfig.__init__ raises (I2C(...) or Pin(...)): logged, re-raised
ConstructRaises ==
    /\ pc = "construct"
    /\ \E e \in {"i2c", "pin"} : Abort(e)
    /\ UNCHANGED ranging
    /\ UNCHANGED << impl, physical, force, devices, has_default, missing,
                    radiozoa_config, xshut_pins, k, attempt, found,
                    history >>

(* ------------------------------------------------------------------ *)
(* RadiozoaConfig.configure(): _shutdown_all_sensors, then             *)
(* _configure_sensor_addresses                                         *)
(* ------------------------------------------------------------------ *)

\* one turn of the loop of _shutdown_all_sensors, at device k
ShutdownStep ==
    /\ pc = "shutdown"
    /\ IF impl[k] # "None"
          THEN IF k \in xshut_pins
                  THEN \* _set_xshut(index, False): pin.off(); the sensor is held in reset
                       /\ pin' = [pin EXCEPT ![k] = "low"]
                       /\ addr' = [addr EXCEPT ![k] = 0]
                       /\ drivenLow' = drivenLow \cup {k}
                       /\ IF NextDevice(k) = NumDevices
                             THEN /\ pc' = "powerup"
                                  /\ k' = 0
                                  /\ phases' = phases \cup {"shutdown"}
                             ELSE /\ pc' = "shutdown"
                                  /\ k' = NextDevice(k)
                                  /\ UNCHANGED phases
                       /\ UNCHANGED << result, exc >>
                  ELSE \* raise RuntimeError('pin not available ...')
                       /\ Abort("pin")
                       /\ UNCHANGED << physical, drivenLow, k, phases >>
          ELSE /\ IF NextDevice(k) = NumDevices
                     THEN /\ pc' = "powerup"
                          /\ k' = 0
                          /\ phases' = phases \cup {"shutdown"}
                     ELSE /\ pc' = "shutdown"
                          /\ k' = NextDevice(k)
                          /\ UNCHANGED phases
               /\ UNCHANGED << physical, drivenLow, result, exc >>
    /\ UNCHANGED ranging
    /\ UNCHANGED << impl, force, devices, has_default, missing,
                    radiozoa_config, xshut_pins, attempt, found,
                    drivenHigh, seen, wr, sent, prescan >>

\* the device loop of _configure_sensor_addresses goes to its next device,
\* or ends, and configure() returns to the re-scan
Advance ==
    IF NextDevice(k) = NumDevices
       THEN /\ pc' = "rescan"
            /\ k' = 0
            /\ phases' = phases \cup {"bringup"}
       ELSE /\ pc' = "powerup"
            /\ k' = NextDevice(k)
            /\ UNCHANGED phases

\* the device loop is left before its last device
LeaveLoop ==
    /\ pc' = "rescan"
    /\ k' = 0
    /\ phases' = phases \cup {"bringup"}

\* the head of the loop body at device k: skip a None slot, else drive the
\* pin high
PowerUp ==
    /\ pc = "powerup"
    /\ IF impl[k] # "None"
          THEN IF k \in xshut_pins
                  THEN \* _set_xshut(index, True): pin.on()
                       /\ pin' = [pin EXCEPT ![k] = "high"]
                       /\ drivenHigh' = drivenHigh \cup {k}
                       /\ found' = FALSE
                       /\ attempt' = 0
                       /\ pc' = "poll"
                       /\ UNCHANGED << addr, k, phases, result, exc >>
                  ELSE /\ Abort("pin")
                       /\ UNCHANGED << physical, drivenHigh, found, attempt, k,
                                       phases >>
          ELSE /\ Advance
               /\ UNCHANGED << physical, drivenHigh, found, attempt, result,
                               exc >>
    /\ UNCHANGED ranging
    /\ UNCHANGED << impl, force, devices, has_default, missing,
                    radiozoa_config, xshut_pins, drivenLow, seen, wr, sent,
                    prescan >>

\* one presence poll: scan, found = has_hex_address(0x29)
Poll ==
    /\ pc = "poll"
    /\ found' = has_hex_address(BusView, DEFAULT_I2C_ADDRESS)
    /\ IF found'
          THEN /\ seen' = [seen EXCEPT ![k] = "found"]
               /\ pc' = "reprogram"
               /\ UNCHANGED << k, attempt, phases >>
          ELSE IF PollsAgain(attempt)
                  THEN /\ attempt' = attempt + 1
                       /\ UNCHANGED << pc, k, seen, phases >>
                  ELSE /\ seen' = [seen EXCEPT ![k] = "notfound"]
                       /\ UNCHANGED attempt
                       /\ IF NotFoundGoes = "continue"
                             THEN Advance
                             ELSE LeaveLoop
    /\ UNCHANGED ranging
    /\ UNCHANGED << impl, physical, force, devices, has_default, missing,
                    radiozoa_config, xshut_pins, result, exc, drivenLow,
                    drivenHigh, wr, sent, prescan >>

\* the scan of a presence poll raises: nothing in RadiozoaConfig catches it
PollRaises ==
    /\ pc = "poll"
    /\ Abort("scan")
    /\ UNCHANGED ranging
    /\ UNCHANGED << impl, physical, force, devices, has_default, missing,
                    radiozoa_config, xshut_pins, k, attempt, found,
                    history >>

\* the try block after a successful poll: the address write goes through.
\* impl[k] is 'VL53L0X' or 'VL53L1X' here (Variants), so the branch for an
\* unknown sensor type is not taken.
Reprogram ==
    /\ pc = "reprogram"
    /\ AtDefault # {}
    /\ LET m == SetI2cAddress(impl[k], i2c_address(k))
       IN  /\ addr' = WriteEffect(m.bytes[Len(m.bytes)])
           /\ sent' = [sent EXCEPT ![k] = Append(@, m)]
    /\ wr' = [wr EXCEPT ![k] = "ok"]
    /\ Advance
    /\ UNCHANGED ranging
    /\ UNCHANGED << impl, pin, force, devices, has_default, missing,
                    radiozoa_config, xshut_pins, attempt, found,
                    result, exc, drivenLow, drivenHigh, seen, prescan >>

\* the try block raises: building the temporary driver ("ctor") or the
\* writeto / writeto_mem of _set_i2c_address ("write"); no address changes
ReprogramRaises ==
    /\ pc = "reprogram"
    /\ \E why \in {"ctor_failed", "write_failed"} :
          /\ wr' = [wr EXCEPT ![k] = why]
          /\ sent' = IF why = "write_failed"
                     THEN [sent EXCEPT
                             ![k] = Append(@, SetI2cAddress(impl[k], i2c_address(k)))]
                     ELSE sent
    /\ IF WriteErrorAborts
          THEN /\ Abort("write")
               /\ UNCHANGED << k, phases >>
          ELSE /\ Advance
               /\ UNCHANGED << result, exc >>
    /\ UNCHANGED ranging
    /\ UNCHANGED << impl, physical, force, devices, has_default, missing,
                    radiozoa_config, xshut_pins, attempt, found,
                    drivenLow, drivenHigh, seen, prescan >>

\* the re-scan after configuration and the returns that follow it
ReScan ==
    /\ pc = "rescan"
    /\ devices' = BusView
    /\ has_default' = has_hex_address(BusView, DEFAULT_I2C_ADDRESS)
    /\ missing' = Missing(BusView)
    /\ phases' = phases \cup {"rescan"}
    /\ result' = VerifyResult(has_default', missing')
    /\ pc' = "done"
    /\ UNCHANGED ranging
    /\ UNCHANGED << impl, physical, force, radiozoa_config, xshut_pins,
                    k, attempt, found, exc, drivenLow, drivenHigh,
                    seen, wr, sent, prescan >>

\* the re-scan raises
ReScanRaises ==
    /\ pc = "rescan"
    /\ Abort("scan")
    /\ UNCHANGED ranging
    /\ UNCHANGED << impl, physical, force, devices, has_default, missing,
                    radiozoa_config, xshut_pins, k, attempt, found,
                    history >>

Next ==
    \/ \E d \in Dev : SensorBoot(d)
    \/ \E f \in BOOLEAN : Call(f)
    \/ PreScan
    \/ PreScanRaises
    \/ Construct
    \/ ConstructRaises
    \/ ShutdownStep
    \/ PowerUp
    \/ Poll
    \/ PollRaises
    \/ Reprogram
    \/ ReprogramRaises
    \/ ReScan
    \/ ReScanRaises

Spec == Init /\ [][Next]_vars

(* ------------------------------------------------------------------ *)
(* Properties                                                          *)
(* ------------------------------------------------------------------ *)

InBringUp == pc \in {"powerup", "poll", "reprogram"}

Failed(d) == wr[d] \in {"ctor_failed", "write_failed"}

\* C1: an unforced configure whose first scan shows the factory default
\* address absent and the address of every device present drives no pin
\* (neither low nor high), attempts no address change, and returns True.
C1_IdempotentUnforced ==
    (~ force /\ prescan = "configured")
        => /\ drivenLow = {}
           /\ drivenHigh = {}
           /\ \A d \in Dev : wr[d] = "none" /\ seen[d] = "none"
           /\ pc = "done"
           /\ result = "True"

C1_Witness ==
    /\ pc = "done"
    /\ ~ force
    /\ prescan = "configured"
    /\ result = "True"

\* C2: with at least one device that is not None in the table, a run that
\* ends without an exception reports success exactly when its last scan shows
\* the factory default address absent and the address of every device whose
\* variant is not None present.
C2_SuccessCriterion ==
    (pc = "done" /\ exc = "none" /\ SetupPins # {})
        => ( result = "True"
             <=> /\ DEFAULT_I2C_ADDRESS \notin devices
                 /\ \A d \in Dev : impl[d] # "None" => i2c_address(d) \in devices )

\* C3: the call always returns a boolean, and it returns False whenever an
\* exception was raised in the run, whether it ended the run (scan, pin,
\* constructor) or was caught inside the device loop (address change).
C3_NoExceptionEscapes ==
    pc = "done"
        => /\ result \in {"True", "False"}
           /\ (exc # "none" \/ \E d \in Dev : Failed(d)) => result = "False"

C3_Witness ==
    /\ pc = "done"
    /\ exc = "scan"
    /\ drivenHigh # {}
    /\ result = "False"

\* C4: during bring-up at most one enabled sensor answers at the factory
\* default address.
C4_CollisionFree ==
    InBringUp => Cardinality(AtDefault) <= 1

\* each device after i has been powered up and polled, or the loop that is
\* still running has yet to come to it, or an exception ended the run
LaterDevicesProcessed(i, reprogrammed) ==
    \A j \in Dev :
        (j > i /\ impl[j] # "None")
            => \/ /\ j \in drivenHigh
                  /\ seen[j] # "none"
                  /\ (reprogrammed /\ seen[j] = "found") => wr[j] # "none"
               \/ InBringUp /\ k <= j
               \/ exc \in {"scan", "pin"}

\* C5: when the factory address was seen in none of the 5 polls of device i,
\* no address change is attempted for i, and every later device that is not
\* None is still powered up and polled in the same run.
C5_NotFoundTolerated ==
    \A i \in Dev :
        seen[i] = "notfound"
            => /\ wr[i] = "none"
               /\ LaterDevicesProcessed(i, FALSE)

C5_Witness ==
    /\ pc = "done"
    /\ exc = "none"
    /\ seen[0] = "notfound"
    /\ 1 \in drivenHigh
    /\ seen[1] # "none"

\* C6: an exception raised while device i is reprogrammed never ends the
\* run, and every later device that is not None is still powered up, polled
\* and, when the factory address was seen, reprogrammed.
C6_WriteErrorRecovered ==
    /\ exc # "write"
    /\ \A i \in Dev : Failed(i) => LaterDevicesProcessed(i, TRUE)

C6_Witness ==
    /\ pc = "done"
    /\ exc = "none"
    /\ wr[0] = "write_failed"
    /\ 1 \in drivenHigh
    /\ wr[1] = "ok"

\* C7: when the sensor of a device that is not None never answers after its
\* power-up in a run whose polls for it were completed, the verification
\* scan has that device's address among the missing ones and the run
\* returns False.
C7_AbsentDeviceFails ==
    \A i \in Dev :
        (pc = "done" /\ i \in drivenHigh /\ seen[i] # "none" /\ addr[i] = 0)
            => /\ result = "False"
               /\ "rescan" \in phases => i2c_address(i) \in missing

\* C8: when the first scan shows only the factory default address, the
\* factory address is seen in the polls of every device and every address
\* change succeeds, the last scan shows exactly the devices' addresses and
\* the run returns True.
C8_AllSucceed ==
    ( /\ pc = "done"
      /\ exc = "none"
      /\ prescan = "only_default"
      /\ \A d \in Dev : seen[d] = "found" /\ wr[d] = "ok" )
        => /\ devices = SensorAddresses
           /\ result = "True"

C8_Witness ==
    /\ pc = "done"
    /\ exc = "none"
    /\ prescan = "only_default"
    /\ \A d \in Dev : seen[d] = "found" /\ wr[d] = "ok"
    /\ result = "True"

\* C9: when a run has ended without an exception, a device whose variant is None has had its pin
\* driven neither low nor high, was neither polled for nor reprogrammed, has
\* its address in no list of missing addresses, gets no driver handle, and
\* does not make the poll loop raise.
C9_NoneUntouched ==
    \A d \in Dev :
        (pc = "done" /\ exc = "none" /\ impl[d] = "None")
            => /\ d \notin drivenLow
               /\ d \notin drivenHigh
               /\ seen[d] = "none"
               /\ wr[d] = "none"
               /\ i2c_address(d) \notin missing
               /\ CreateSensor(impl[d]) = "null"
               /\ ~ PollVariantRaises(impl[d])

\* C10: a forced configure that no exception ends has run the shutdown of
\* every device that is not None, the bring-up of every such device and the
\* re-scan, whatever its first scan showed.
C10_ForcedRunsAllPhases ==
    (pc = "done" /\ force /\ exc = "none")
        => /\ {"prescan", "shutdown", "bringup", "rescan"} \subseteq phases
           /\ drivenLow = SetupPins
           /\ drivenHigh = SetupPins

C10_Witness ==
    /\ pc = "done"
    /\ force
    /\ exc = "none"
    /\ prescan = "configured"
    /\ "rescan" \in phases

\* a sensor answers at the address that the address change of device d wrote
KeptAt(d) == \E s \in Dev : pin[s] = "high" /\ addr[s] = i2c_address(d)

\* C11: after a run that returned False, every sensor of a device that is not
\* None answers at its own device's address, answers at the factory default
\* address, or does not answer; and the address written by every successful
\* address change of the run is still answered at (no sensor was moved back
\* or powered down).
C11_BoundedEndStates ==
    (pc = "done" /\ result = "False")
        => \A s \in Dev :
              impl[s] # "None"
                 => /\ addr[s] \in {i2c_address(s), DEFAULT_I2C_ADDRESS, 0}
                    /\ wr[s] = "ok" => KeptAt(s)

(* ------------------------------------------------------------------ *)
(* RadiozoaSensor: the sensor array                                    *)
(* ------------------------------------------------------------------ *)

configureVars == << impl, pin, addr, pc, force, devices, has_default, missing,
                    radiozoa_config, xshut_pins, k, attempt, found, result,
                    exc, drivenLow, drivenHigh, seen, wr, sent, phases, prescan >>

\* RadiozoaSensor.__init__ with every driver constructor returning
InitArray ==
    /\ impl \in [Dev -> Variants]
    /\ InitConfigure
    /\ sensors = [d \in Dev |-> CreateSensor(impl[d])]
    /\ is_ranging = FALSE
    /\ acall = NoCall
    /\ NoLoop

\* start_ranging() (op = "start") and stop_ranging() (op = "stop"), where
\* outs says which handles' start() / stop() raise
Ranging(op, outs) ==
    LET r == InvokeFrom(0, {}, outs)
    IN  /\ IF RangingGuard(op, is_ranging)
              THEN /\ acall' = [op |-> op, arg |-> 0, outs |-> outs,
                                was |-> is_ranging, raised |-> r.raised,
                                ret |-> << >>, invoked |-> r.invoked]
                   /\ is_ranging' = IF r.raised THEN is_ranging
                                    ELSE (op = "start")
              ELSE /\ acall' = [op |-> op, arg |-> 0, outs |-> outs,
                                was |-> is_ranging, raised |-> FALSE,
                                ret |-> << >>, invoked |-> {}]
                   /\ UNCHANGED is_ranging
        /\ UNCHANGED << sensors, configureVars, loopVars, settingVars >>

StartRanging == \E outs \in [Dev -> StartOutcomes] : Ranging("start", outs)

StopRanging == \E outs \in [Dev -> StartOutcomes] : Ranging("stop", outs)

\* get_distance(cardinal) for the cardinal of table row d, where outs says
\* what each handle's read() does
CallGetDistance ==
    \E d \in Dev, outs \in [Dev -> Outcomes] :
        LET r == GetDistance(d, outs)
        IN  /\ acall' = [op |-> "get_distance", arg |-> d, outs |-> outs,
                         was |-> is_ranging, raised |-> r.raised,
                         ret |-> r.ret, invoked |-> {}]
            /\ UNCHANGED << sensors, is_ranging, configureVars, loopVars, settingVars >>

\* get_distances()
CallGetDistances ==
    \E outs \in [Dev -> Outcomes] :
        LET r == GetDistances(outs)
        IN  /\ acall' = [op |-> "get_distances", arg |-> 0, outs |-> outs,
                         was |-> is_ranging, raised |-> r.raised,
                         ret |-> r.ret, invoked |-> {}]
            /\ UNCHANGED << sensors, is_ranging, configureVars, loopVars, settingVars >>

NextArray ==
    \/ StartRanging
    \/ StopRanging
    \/ CallGetDistance
    \/ CallGetDistances

SpecArray == InitArray /\ [][NextArray]_vars

\* the table rows that have a handle
WithHandle == { d \in Dev : sensors[d] # "null" }

\* the rows whose read fails in the last call: no handle, or read() raised
Faulty == { d \in Dev : sensors[d] = "null" \/ acall.outs[d] = RAISES }

\* C12: get_distance and get_distances never raise, and the result for a
\* device with no handle or whose read() raises is the sentinel 9999.
C12_ReadNeverRaises ==
    /\ acall.op \in {"get_distance", "get_distances"} => ~ acall.raised
    /\ (acall.op = "get_distance" /\ acall.arg \in Faulty)
          => acall.ret = << OUT_OF_RANGE >>
    /\ acall.op = "get_distances"
          => /\ Len(acall.ret) = NumDevices
             /\ \A d \in Faulty : acall.ret[d + 1] = OUT_OF_RANGE

\* C13: get_distances returns one entry per table position, in table order,
\* and the entry of every device that has a handle and whose read() returned
\* is its own reading minus the offset, floored at 0, whatever the other
\* devices do.
C13_BatchIsolation ==
    acall.op = "get_distances"
        => /\ ~ acall.raised
           /\ Len(acall.ret) = NumDevices
           /\ \A d \in Dev \ Faulty :
                 acall.ret[d + 1] = Max(0, acall.outs[d] - DISTANCE_OFFSET)

\* the readings that the last call returned, with the raw value of each
ReturnedReadings ==
    IF acall.raised THEN {}
    ELSE IF acall.op = "get_distance"
            THEN { << acall.outs[acall.arg], acall.ret[1] >> }
    ELSE IF acall.op = "get_distances"
            THEN { << acall.outs[d], acall.ret[d + 1] >> : d \in Dev }
    ELSE {}

\* C14: every reading that a read call returns for a raw driver value is
\* max(0, raw - 50): never negative, 0 for a raw value of at most 50, and
\* raw - 50 above that (25 for a raw value of 75).
C14_OffsetCorrection ==
    \A p \in ReturnedReadings :
        /\ p[2] >= 0
        /\ p[1] <= 50 => p[2] = 0
        /\ p[1] > 50 => p[2] = p[1] - 50
        /\ p[1] = 75 => p[2] = 25

C14_Witness ==
    /\ acall.op = "get_distance"
    /\ ~ acall.raised
    /\ acall.outs[acall.arg] = 75
    /\ acall.ret = << 25 >>

\* C15: a start_ranging that finds the array not ranging, and a stop_ranging
\* that finds it ranging, call start() / stop() on every handle, also when
\* the call on some handle raises, and do not raise themselves.
C15_StartStopIsolated ==
    (acall.op \in {"start", "stop"} /\ (acall.was <=> acall.op = "stop"))
        => /\ ~ acall.raised
           /\ acall.invoked = WithHandle

C15_Witness ==
    /\ acall.op = "start"
    /\ ~ acall.was
    /\ \E d, e \in WithHandle :
          d < e /\ acall.outs[d] = RAISES /\ e \in acall.invoked

\* C16: start_ranging while ranging and stop_ranging while not ranging call
\* no start() / stop() and leave the ranging flag as it was.
C16_RedundantNoOp ==
    (acall.op \in {"start", "stop"} /\ (acall.was <=> acall.op = "start"))
        => /\ acall.invoked = {}
           /\ ~ acall.raised
           /\ is_ranging = acall.was

C16_Witness ==
    /\ acall.op = "start"
    /\ acall.was
    /\ WithHandle # {}
    /\ is_ranging

(* ------------------------------------------------------------------ *)
(* Sensor: enable(), disable(), the queries and the poll loop          *)
(* ------------------------------------------------------------------ *)

\* what the loop's batch read lets each driver's read() do
LoopOutcomes == {RAISES, 75}

\* the three queries of the current distances
Queries == {"distances", "distances_fmt", "distances_packed"}

\* the state a call of enable() or disable() can change
taskVars == << enabled, task, tstate, cancelreq >>

EnableGuardNone(en) == TRUE

\* Sensor.enable: "if not self._enabled"
EnableGuard(en) == ~ en

\* Sensor.disable: "if self._enabled"
DisableGuard(en) == en

QueryNeverRaises(en) == FALSE

\* the three properties: "if not self._enabled: raise IllegalStateError"
QueryRaises(en) == ~ en

LoopCatchesNone(e) == FALSE

\* _poll_loop: "except Exception as e" around the whole body of an
\* iteration; CancelledError is a BaseException and is not caught
LoopCatches(e) == e \in {"NameError", "ValueError", "RuntimeError"}

\* how an iteration of task t that raised e ends: logged, and on to the
\* sleep; or, uncaught, the end of the task
Raise(t, e) ==
    IF LoopCatches(e)
    THEN /\ tstate' = [tstate EXCEPT ![t] = "sleep"]
         /\ iterexc' = [iterexc EXCEPT ![t] = [exc |-> e, escaped |-> FALSE]]
    ELSE /\ tstate' = [tstate EXCEPT ![t] = "done"]
         /\ iterexc' = [iterexc EXCEPT ![t] = [exc |-> e, escaped |-> TRUE]]

LoopContinuesAlways(en) == TRUE

\* _poll_loop: "while self._enabled"
LoopContinues(en) == en

SuspendsAnywhere(point) == TRUE

\* the points of _poll_loop at which the coroutine awaits, so that other
\* code can run: only the sleep that ends an iteration
Suspends(point) == point = "sleep"

\* Task.cancel() of MicroPython's asyncio, called on task t while task c is
\* the running one (c = 0: no poll task is running).  A finished task is
\* left alone; the running task cannot cancel itself (RuntimeError); any
\* other task is rescheduled to receive CancelledError when next resumed.
CancelRaises(t, c) == tstate[t] # "done" /\ t = c

CancelMarks(t, c) == tstate[t] # "done" /\ t # c

\* the tasks that will execute further iterations if the flag allows
LiveTasks == {t \in Tasks : tstate[t] \notin {"unborn", "done"} /\ ~ cancelreq[t]}

\* the tasks inside an iteration, after its batch read and before its last
\* LED push
MidIteration == {t \in Tasks : tstate[t] = "push"}

\* Sensor.__init__: disabled, no task, _radiozoa taken from the controller
InitLoop ==
    /\ impl \in [Dev -> Variants]
    /\ InitConfigure
    /\ sensors = [d \in Dev |-> CreateSensor(impl[d])]
    /\ is_ranging = FALSE
    /\ acall = NoCall
    /\ enabled = FALSE
    /\ task = 0
    /\ tstate = [t \in Tasks |-> "unborn"]
    /\ cancelreq = [t \in Tasks |-> FALSE]
    /\ cur = 0
    /\ radiozoa \in BOOLEAN
    /\ distances = InitDistances
    /\ led_i = 0
    /\ lcall = NoSensorCall
    /\ midcall = FALSE
    /\ lateread = FALSE
    /\ iterexc = [t \in Tasks |-> NoException]
    /\ NoSettings

\* Sensor.enable(), called while no poll task holds the processor
Enable ==
    /\ cur = 0
    /\ IF EnableGuard(enabled)
       THEN /\ \E t \in Tasks :
                /\ tstate[t] = "unborn"
                /\ \A u \in Tasks : u < t => tstate[u] # "unborn"
                /\ tstate' = [tstate EXCEPT ![t] = "new"]
                /\ task' = t
            /\ enabled' = TRUE
       ELSE UNCHANGED << enabled, task, tstate >>
    /\ UNCHANGED cancelreq
    /\ lcall' = [op |-> "enable", was |-> enabled,
                 changed |-> taskVars' # taskVars, result |-> "returns"]
    /\ UNCHANGED << cur, radiozoa, distances, led_i, midcall, lateread,
                    iterexc >>
    /\ UNCHANGED << configureVars, arrayVars, settingVars >>

\* Sensor.disable(), called while no poll task holds the processor
Disable ==
    /\ cur = 0
    /\ IF DisableGuard(enabled)
       THEN /\ enabled' = FALSE
            /\ cancelreq' = IF task # 0 /\ CancelMarks(task, 0)
                            THEN [cancelreq EXCEPT ![task] = TRUE]
                            ELSE cancelreq
            /\ midcall' = (midcall \/ MidIteration # {})
       ELSE UNCHANGED << enabled, cancelreq, midcall >>
    /\ UNCHANGED << task, tstate >>
    /\ lcall' = [op |-> "disable", was |-> enabled,
                 changed |-> taskVars' # taskVars, result |-> "returns"]
    /\ UNCHANGED << cur, radiozoa, distances, led_i, lateread, iterexc >>
    /\ UNCHANGED << configureVars, arrayVars, settingVars >>

\* a read of distances, distances_fmt or distances_packed
Query(which) ==
    /\ cur = 0
    /\ lcall' = [op |-> which, was |-> enabled, changed |-> FALSE,
                 result |-> IF QueryRaises(enabled)
                            THEN "IllegalStateError" ELSE "value"]
    /\ UNCHANGED << enabled, task, tstate, cancelreq, cur, radiozoa,
                    distances, led_i, midcall, lateread, iterexc >>
    /\ UNCHANGED << configureVars, arrayVars, settingVars >>

\* the scheduler resumes poll task t: a pending CancelledError ends it (a
\* task cancelled before its first step never runs); otherwise it tests
\* "while self._enabled" and either enters the try block or completes
Resume(t) ==
    /\ cur = 0
    /\ tstate[t] \in {"new", "sleep", "push"}
    /\ IF cancelreq[t]
       THEN /\ tstate' = [tstate EXCEPT ![t] = "done"]
            /\ UNCHANGED cur
       ELSE IF tstate[t] = "push"
       THEN /\ cur' = t
            /\ UNCHANGED tstate
       ELSE IF LoopContinues(enabled)
       THEN /\ tstate' = [tstate EXCEPT ![t] = "body"]
            /\ cur' = t
       ELSE /\ tstate' = [tstate EXCEPT ![t] = "done"]
            /\ UNCHANGED cur
    /\ UNCHANGED << enabled, task, cancelreq, radiozoa, distances, led_i,
                    lcall, midcall, lateread, iterexc >>
    /\ UNCHANGED << configureVars, arrayVars, settingVars >>

\* "if self._radiozoa": the batch read.  An exception of get_distances() is
\* logged by "except Exception" and the iteration ends at the sleep.
Read(t) ==
    /\ cur = t
    /\ tstate[t] = "body"
    /\ radiozoa
    /\ \E outs \in [Dev -> LoopOutcomes] :
        LET r == GetDistances(outs)
        IN  IF r.raised
            THEN /\ Raise(t, "NameError")
                 /\ cur' = 0
                 /\ UNCHANGED distances
            ELSE /\ tstate' = [tstate EXCEPT ![t] = "push"]
                 /\ cur' = IF Suspends("push") THEN 0 ELSE t
                 /\ distances' = r.ret
                 /\ UNCHANGED iterexc
    /\ led_i' = 0
    /\ lateread' = (lateread \/ cancelreq[t])
    /\ UNCHANGED << enabled, task, cancelreq, radiozoa, lcall, midcall >>
    /\ UNCHANGED << configureVars, arrayVars, settingVars >>

\* the LED push of table row led_i; the else branch of the branch on
\* _device.impl raises ValueError, which ends the iteration at the sleep
Push(t) ==
    /\ cur = t
    /\ tstate[t] = "push"
    /\ IF led_i = NumDevices
       THEN /\ led_i' = 0
            /\ tstate' = [tstate EXCEPT ![t] = "sleep"]
            /\ iterexc' = [iterexc EXCEPT ![t] = NoException]
            /\ cur' = 0
       ELSE IF PollVariantRaises(impl[led_i])
       THEN /\ led_i' = 0
            /\ Raise(t, "ValueError")
            /\ cur' = 0
       ELSE /\ led_i' = led_i + 1
            /\ UNCHANGED << tstate, cur, iterexc >>
    /\ UNCHANGED << enabled, task, cancelreq, radiozoa, distances, lcall,
                    midcall, lateread >>
    /\ UNCHANGED << configureVars, arrayVars, settingVars >>

\* the else branch: "no radiozoa: disabling", self.disable() from inside
\* the loop.  Cancelling the running task raises RuntimeError, logged by
\* "except Exception"; the iteration then ends at the sleep.
SelfDisable(t) ==
    /\ cur = t
    /\ tstate[t] = "body"
    /\ ~ radiozoa
    /\ IF DisableGuard(enabled)
       THEN /\ enabled' = FALSE
            /\ cancelreq' = IF task # 0 /\ CancelMarks(task, t)
                            THEN [cancelreq EXCEPT ![task] = TRUE]
                            ELSE cancelreq
       ELSE UNCHANGED << enabled, cancelreq >>
    /\ IF DisableGuard(enabled) /\ task # 0 /\ CancelRaises(task, t)
       THEN Raise(t, "RuntimeError")
       ELSE /\ tstate' = [tstate EXCEPT ![t] = "sleep"]
            /\ iterexc' = [iterexc EXCEPT ![t] = NoException]
    /\ cur' = 0
    /\ UNCHANGED << task, radiozoa, distances, led_i, lcall, midcall,
                    lateread >>
    /\ UNCHANGED << configureVars, arrayVars, settingVars >>

NextLoop ==
    \/ Enable
    \/ Disable
    \/ \E which \in Queries : Query(which)
    \/ \E t \in Tasks : Resume(t)
    \/ \E t \in Tasks : Read(t)
    \/ \E t \in Tasks : Push(t)
    \/ \E t \in Tasks : SelfDisable(t)

SpecLoop == InitLoop /\ [][NextLoop]_vars

(* ------------------------------------------------------------------ *)
(* Sensor: properties                                                  *)
(* ------------------------------------------------------------------ *)

\* C17: whenever the ranging state is Enabled exactly one poll-loop task is
\* live, and at no time are two poll-loop tasks live.
C17_SinglePollTask ==
    /\ enabled => Cardinality(LiveTasks) = 1
    /\ Cardinality(LiveTasks) <= 1

\* C18: enable() while Enabled and disable() while Disabled return normally
\* and change neither the flag, nor the task handle, nor any task: no task
\* is created and none is cancelled.
C18_SameStateNoOp ==
    (\/ lcall.op = "enable" /\ lcall.was
     \/ lcall.op = "disable" /\ ~ lcall.was)
        => ~ lcall.changed /\ lcall.result = "returns"

C18_Witness ==
    /\ lcall.op = "enable"
    /\ lcall.was
    /\ task # 0
    /\ tstate[task] = "sleep"
    /\ ~ cancelreq[task]

\* C19: a query of distances, distances_fmt or distances_packed made while
\* the ranging state is Disabled raises IllegalStateError and returns no
\* value.
C19_DisabledQueryRaises ==
    (lcall.op \in Queries /\ ~ lcall.was)
        => lcall.result = "IllegalStateError"

C19_Witness ==
    /\ lcall.op \in Queries
    /\ ~ lcall.was
    /\ ~ enabled
    /\ \E t \in Tasks : tstate[t] = "done"

\* C20: a poll task is away from the processor only before its first step,
\* at the sleep that ends an iteration, or when finished; no disable() has
\* run between a batch read and the last LED push of its iteration; and no
\* task has made a batch read after it was cancelled.
C20_BoundaryOnly ==
    /\ \A t \in Tasks : tstate[t] \in {"body", "push"} => cur = t
    /\ ~ midcall
    /\ ~ lateread

C20_Witness ==
    /\ lcall.op = "disable"
    /\ lcall.was
    /\ distances # InitDistances
    /\ \E t \in Tasks : cancelreq[t] /\ tstate[t] = "done"

\* The scheduler resumes every task that is ready (a sleep of the poll
\* period ends), and a running task executes its code up to the next await.
FairLoop ==
    \A t \in Tasks :
        /\ WF_vars(Resume(t))
        /\ WF_vars(Read(t))
        /\ WF_vars(Push(t))
        /\ WF_vars(SelfDisable(t))

RegistryClash ==
    << [index |-> 0, impl |-> "VL53L1X", label |-> "N0",  i2c_address |-> 48, xshut |-> 3],
       [index |-> 1, impl |-> "VL53L1X", label |-> "NE1", i2c_address |-> 48, xshut |-> 35],
       [index |-> 2, impl |-> "VL53L1X", label |-> "E2",  i2c_address |-> 50, xshut |-> 2],
       [index |-> 3, impl |-> "VL53L1X", label |-> "SE3", i2c_address |-> 51, xshut |-> 36],
       [index |-> 4, impl |-> "VL53L1X", label |-> "S4",  i2c_address |-> 52, xshut |-> 1],
       [index |-> 5, impl |-> "VL53L1X", label |-> "SW5", i2c_address |-> 53, xshut |-> 37],
       [index |-> 6, impl |-> "VL53L1X", label |-> "W6",  i2c_address |-> 54, xshut |-> 0],
       [index |-> 7, impl |-> "VL53L1X", label |-> "NW7", i2c_address |-> 55, xshut |-> 43] >>

\* Device._registry after the module is loaded: the rows N0 .. NW7 in the
\* order of their construction (0x30 = 48 .. 0x37 = 55)
Registry ==
    << [index |-> 0, impl |-> "VL53L1X", label |-> "N0",  i2c_address |-> 48, xshut |-> 3],
       [index |-> 1, impl |-> "VL53L1X", label |-> "NE1", i2c_address |-> 49, xshut |-> 35],
       [index |-> 2, impl |-> "VL53L1X", label |-> "E2",  i2c_address |-> 50, xshut |-> 2],
       [index |-> 3, impl |-> "VL53L1X", label |-> "SE3", i2c_address |-> 51, xshut |-> 36],
       [index |-> 4, impl |-> "VL53L1X", label |-> "S4",  i2c_address |-> 52, xshut |-> 1],
       [index |-> 5, impl |-> "VL53L1X", label |-> "SW5", i2c_address |-> 53, xshut |-> 37],
       [index |-> 6, impl |-> "VL53L1X", label |-> "W6",  i2c_address |-> 54, xshut |-> 0],
       [index |-> 7, impl |-> "VL53L1X", label |-> "NW7", i2c_address |-> 55, xshut |-> 43] >>

\* the variants of the table as device.py declares it: every row VL53L1X
DeviceTable == [d \in Dev |-> Registry[d + 1].impl]

\* Sensor.__init__ over the declared table
InitLoopTable == InitLoop /\ impl = DeviceTable

SpecLoopFair == InitLoopTable /\ [][NextLoop]_vars /\ FairLoop

\* a step of the poll loop's own code that takes the ranging state from
\* Enabled to Disabled
LoopDisables == cur # 0 /\ enabled /\ ~ enabled'

\* task t has run an iteration without a sensor array and sleeps, the
\* ranging state being Disabled
SelfDisabled(t) == ~ radiozoa /\ tstate[t] = "sleep" /\ ~ enabled

\* C21: a step of the loop changes the ranging state to Disabled only in an
\* iteration that finds no sensor array, and every such iteration does; the
\* task that disabled itself then terminates unless the state is Enabled
\* again meanwhile.
C21_SelfShutdown ==
    /\ [][LoopDisables => ~ radiozoa]_vars
    /\ [][(\E t \in Tasks : SelfDisable(t)) => ~ enabled']_vars
    /\ \A t \in Tasks : SelfDisabled(t) ~> (tstate[t] = "done" \/ enabled)

C21_Witness ==
    /\ ~ radiozoa
    /\ ~ enabled
    /\ task # 0
    /\ tstate[task] = "done"
    /\ ~ cancelreq[task]

\* task t sleeps after an iteration that raised, the array being available,
\* the ranging state Enabled and the task not cancelled
FailedIteration(t) ==
    /\ radiozoa
    /\ tstate[t] = "sleep"
    /\ iterexc[t].exc # "none"
    /\ enabled
    /\ ~ cancelreq[t]

\* C22: with the array available, an iteration in which a read or a mapping
\* raises ends at the sleep with the exception logged, the ranging state
\* unchanged and the task not finished; and while the state stays Enabled
\* the task goes on to its next iteration.
C22_FailureIsolated ==
    /\ [][\A t \in Tasks :
            (radiozoa /\ iterexc'[t] # iterexc[t] /\ iterexc'[t].exc # "none")
                => /\ tstate'[t] = "sleep"
                   /\ ~ iterexc'[t].escaped
                   /\ enabled' = enabled]_vars
    /\ \A t \in Tasks :
            FailedIteration(t) ~> (tstate[t] = "body" \/ ~ enabled \/ cancelreq[t])

C22_Witness ==
    /\ radiozoa
    /\ enabled
    /\ \E t \in Tasks : tstate[t] = "body" /\ iterexc[t].exc = "NameError"

\* some row of the table has a variant the loop's branch does not know
UnknownVariant == \E d \in Dev : PollVariantRaises(impl[d])

\* C23: over a table with a row that is neither VL53L0X nor VL53L1X, no
\* iteration of the poll loop ends at the sleep: the error leaves the loop
\* and the task does not go on iterating.
C23_UnknownVariantFatal ==
    (radiozoa /\ UnknownVariant) => \A t \in Tasks : tstate[t] # "sleep"

(* ------------------------------------------------------------------ *)
(* Sensor: poll rate and colour mapping                                *)
(* ------------------------------------------------------------------ *)

\* rates handed to set_poll_rate_hz, in tenths of a hertz (5 = 0.5 Hz,
\* 200 = the default argument 20 Hz)
RateTenths == {-10, 0, 1, 4, 5, 6, 7, 10, 15, 20, 30, 50, 100, 200, 250, 333,
               499, 500, 501, 1000}

RateAcceptedAbove(r10) == 5 <= r10

\* set_poll_rate_hz: "if not (0.5 <= rate_hz <= 50): raise ValueError"
RateAccepted(r10) == 5 <= r10 /\ r10 <= 500

\* int(1000 / rate_hz): the quotient is positive, so int() is the floor
DelayFor(r10) == 10000 \div r10

\* Sensor.__init__: _min_distance_mm, the two variant maxima and
\* _return_max_range
MIN_DISTANCE_MM == 50
MAX_SHORT_RANGE_MM == 1000
MAX_LONG_RANGE_MM == 4000
RETURN_MAX_RANGE == TRUE

\* the maximum the poll loop hands to _color_for_distance for a variant
MaxDistances == {MAX_SHORT_RANGE_MM, MAX_LONG_RANGE_MM}

\* distances handed to _color_for_distance
ColorDistances ==
    {0, 1, 49, 50, 51, 100, 333, 500, 999, 1000, 1001, 2000, 2667, 3999, 4000,
     4001, 8000, OUT_OF_RANGE}

\* int(x * 255) for x = a / b in 0..1
Channel(a, b) == (255 * a) \div b

\* _hsv_to_rgb(h, 1.0, 1.0) for the hue h = hn / hd degrees, in exact
\* arithmetic: p = 0, q = 1 - f, t = f
HsvToRgb(hn, hd) ==
    LET h        == hn % (360 * hd)
        h_sector == h \div (60 * hd)
        fn       == h - h_sector * 60 * hd
        fd       == 60 * hd
        v        == Channel(fd, fd)
        p        == Channel(0, fd)
        q        == Channel(fd - fn, fd)
        t        == Channel(fn, fd)
    IN  IF h_sector = 0 THEN << v, t, p >>
        ELSE IF h_sector = 1 THEN << q, v, p >>
        ELSE IF h_sector = 2 THEN << p, v, t >>
        ELSE IF h_sector = 3 THEN << p, q, v >>
        ELSE IF h_sector = 4 THEN << t, p, v >>
        ELSE << v, p, q >>

FoldedNone(distance, max) == distance

\* _color_for_distance: a distance beyond the maximum, _return_max_range
\* being set, is replaced by the maximum
Folded(distance, max) == IF distance > max THEN max ELSE distance

\* _color_for_distance(cardinal, distance, max_distance_mm)
ColorForDistance(distance, max) ==
    IF distance > max /\ ~ RETURN_MAX_RANGE
    THEN << 0, 0, 0 >>
    ELSE LET d == Folded(distance, max)
         IN  IF d <= MIN_DISTANCE_MM
             THEN << 255, 0, 0 >>
             ELSE HsvToRgb(300 * d, max)

\* set_poll_rate_hz(rate_hz)
SetPollRate(r10) ==
    /\ IF RateAccepted(r10)
       THEN poll_delay_ms' = DelayFor(r10)
       ELSE UNCHANGED poll_delay_ms
    /\ rcall' = [op |-> "set", rate |-> r10, raised |-> ~ RateAccepted(r10),
                 before |-> poll_delay_ms, read |-> NOT_READ]
    /\ UNCHANGED << ccall, configureVars, arrayVars, loopVars >>

\* the property poll_rate_hz
PollRateHz(delay_ms) == delay_ms * 1000

\* a read of poll_rate_hz
ReadPollRate ==
    /\ rcall' = [rcall EXCEPT !.read = PollRateHz(poll_delay_ms)]
    /\ UNCHANGED << poll_delay_ms, ccall, configureVars, arrayVars, loopVars >>

\* _color_for_distance, as the poll loop calls it for one table row
CallColor(distance, max) ==
    /\ ccall' = [op |-> "color", distance |-> distance, max |-> max,
                 out |-> ColorForDistance(distance, max)]
    /\ UNCHANGED << poll_delay_ms, rcall, configureVars, arrayVars, loopVars >>

NextSettings ==
    \/ \E r10 \in RateTenths : SetPollRate(r10)
    \/ ReadPollRate
    \/ \E distance \in ColorDistances, max \in MaxDistances :
            CallColor(distance, max)

SpecSettings == InitLoopTable /\ [][NextSettings]_vars

\* C24: a rate below 0.5 Hz or above 50 Hz is rejected with an error and
\* the poll period stays what it was; after an accepted rate the period
\* lies in 20..2000 ms; before any call the period is 50 ms.
C24_PollRateValidated ==
    /\ rcall.op = "none" => poll_delay_ms = 50
    /\ rcall.op = "set" =>
        IF rcall.rate < 5 \/ rcall.rate > 500
        THEN rcall.raised /\ poll_delay_ms = rcall.before
        ELSE ~ rcall.raised /\ 20 <= poll_delay_ms /\ poll_delay_ms <= 2000

C24_Witness ==
    /\ rcall.op = "set"
    /\ rcall.rate = 501
    /\ rcall.raised
    /\ poll_delay_ms = 2000

\* C25: a distance of at most 50 mm maps to (255, 0, 0); a distance above
\* the variant maximum maps to the colour of the maximum itself, which is
\* the colour of hue 300.
C25_ColorBoundaries ==
    ccall.op = "color" =>
        /\ ccall.distance <= 50 => ccall.out = << 255, 0, 0 >>
        /\ ccall.distance >= ccall.max =>
            /\ ccall.out = ColorForDistance(ccall.max, ccall.max)
            /\ ccall.out = HsvToRgb(300, 1)

C25_Witness ==
    /\ ccall.op = "color"
    /\ ccall.distance = OUT_OF_RANGE
    /\ ccall.max = MAX_LONG_RANGE_MM
    /\ ccall.out = << 255, 0, 255 >>

(* ------------------------------------------------------------------ *)
(* Device table; order and bounds of the configurator's phases         *)
(* ------------------------------------------------------------------ *)

Rows == 1 .. Len(Registry)

\* C26: the table has eight rows whose indexes are 0..7, each once; their
\* addresses are pairwise different, lie in 0x30..0x37 and are not the
\* factory default 0x29; the addresses the configurator uses are those of
\* the table; and no step of the configurator changes a row's variant.
C26_TableWellFormed ==
    /\ [](/\ Len(Registry) = 8
          /\ \A i \in Rows : Registry[i].index = i - 1
          /\ \A i, j \in Rows :
                i # j => Registry[i].i2c_address # Registry[j].i2c_address
          /\ \A i \in Rows :
                /\ Registry[i].i2c_address \in 48 .. 55
                /\ Registry[i].i2c_address # DEFAULT_I2C_ADDRESS
          /\ \A d \in Dev : i2c_address(d) = Registry[d + 1].i2c_address)
    /\ [][impl' = impl]_vars

C26_Witness ==
    /\ pc = "done"
    /\ result = "True"
    /\ impl = DeviceTable
    /\ "bringup" \in phases
    /\ \A d \in Dev : addr[d] = Registry[d + 1].i2c_address

\* the presence polls of device d are over and so is its address write, if
\* the polls led to one
BringUpOver(d) ==
    /\ seen[d] \in {"found", "notfound"}
    /\ seen[d] = "found" => wr[d] # "none"

\* C27: within a run no pin is driven high before the pin of every device
\* that is not None has been driven low; a pin is driven high only when
\* every pin driven high before it belongs to a lower index, and only when
\* the polls and the address write of every such device are over; no
\* device that is not None is passed over.
C27_PhaseOrder ==
    /\ [](/\ drivenHigh # {} => drivenLow = {d \in Dev : impl[d] # "None"}
          /\ \A d \in drivenHigh : \A e \in Dev :
                (e < d /\ impl[e] # "None") => e \in drivenHigh /\ BringUpOver(e))
    /\ [][\A d \in drivenHigh' \ drivenHigh :
            /\ \A e \in drivenHigh : e < d
            /\ drivenHigh' = drivenHigh \cup {d}
            /\ pin'[d] = "high"]_vars

C27_Witness ==
    /\ pc = "poll"
    /\ k = NumDevices - 1
    /\ drivenHigh = Dev
    /\ seen[0] = "found"
    /\ wr[0] = "ok"

\* a step of the code of a configure() call that is under way
RunStep ==
    \/ PreScan
    \/ PreScanRaises
    \/ Construct
    \/ ConstructRaises
    \/ ShutdownStep
    \/ PowerUp
    \/ Poll
    \/ PollRaises
    \/ Reprogram
    \/ ReprogramRaises
    \/ ReScan
    \/ ReScanRaises

\* the call runs on: its code is sequential and every delay in it is a
\* sleep of fixed length
\* the board with every slot either a VL53L1X, as in the declared table, or
\* empty
InitLongRange == Init /\ impl \in [Dev -> {"VL53L1X", "None"}]

SpecFair == InitLongRange /\ [][Next]_vars /\ WF_vars(RunStep)

\* C28: the loop variable of the presence polls stays below 5, so a device
\* is polled at most 5 times; a poll that sees the factory address is the
\* last poll of its device, one that does not is followed by another poll
\* only with the loop variable raised by one; and a call that is under way
\* returns, whatever the polls see.
C28_BoundedRetry ==
    /\ [](/\ attempt < 5
          /\ pc = "poll" => seen[k] = "none")
    /\ [][Poll =>
            /\ found' => seen'[k] = "found" /\ pc' = "reprogram"
            /\ (~ found' /\ pc' = "poll") => k' = k /\ attempt' = attempt + 1
            /\ (~ found' /\ pc' # "poll") => attempt = 4 /\ seen'[k] = "notfound"]_vars
    /\ (pc \notin {"idle", "done"}) ~> (pc = "done")

C28_Witness ==
    /\ pc = "done"
    /\ exc = "none"
    /\ attempt = 4
    /\ \E d \in Dev : seen[d] = "notfound"
    /\ \E d \in Dev : seen[d] = "found"

\* the address-change write the format of variant v prescribes for the
\* target address a: register 0x8A and the address byte for VL53L0X, the
\* bytes 0x00, 0x01 and the address for VL53L1X
PrescribedWrite(v, a) ==
    IF v = "VL53L0X" THEN << 138, a >> ELSE << 0, 1, a >>

\* the polls of device d saw the factory address and the step that follows
\* them is over
Observed(d) ==
    /\ impl[d] # "None"
    /\ seen[d] = "found"
    /\ ~ (pc = "reprogram" /\ k = d)

\* C29: in a run, a device that is not None and was seen at the factory
\* address has had exactly one address-change write, sent to 0x29, carrying
\* the device's own address in the format of its variant; no other device
\* has had any.
C29_AddressWrite ==
    \A d \in Dev :
        IF Observed(d)
        THEN /\ Len(sent[d]) = 1
             /\ sent[d][1].to = 41
             /\ sent[d][1].bytes = PrescribedWrite(impl[d], Registry[d + 1].i2c_address)
        ELSE sent[d] = << >>

(* ------------------------------------------------------------------ *)
(* RadiozoaSensor: construction                                        *)
(* ------------------------------------------------------------------ *)

CtorErrorSkipped == FALSE

\* _create_sensors: "except Exception as e: ... raise"
CtorErrorReraised == TRUE

\* the loop of _create_sensors from table row i on, acc holding the handles
\* bound so far; outs says which driver constructors raise
RECURSIVE CreateFrom(_, _, _)
CreateFrom(i, acc, outs) ==
    IF i = NumDevices
    THEN [raised |-> FALSE, sensors |-> acc]
    ELSE IF impl[i] # "None" /\ outs[i] = RAISES
    THEN IF CtorErrorReraised
         THEN [raised |-> TRUE, sensors |-> acc]
         ELSE CreateFrom(i + 1, acc, outs)
    ELSE CreateFrom(i + 1, [acc EXCEPT ![i] = CreateSensor(impl[i])], outs)

\* no RadiozoaSensor has been built yet
InitCreate ==
    /\ impl \in [Dev -> Variants]
    /\ InitConfigure
    /\ NoArray
    /\ NoLoop

\* RadiozoaSensor(): __init__ returned, so the array exists
Built == acall.op # "none" /\ ~ (acall.op = "create" /\ acall.raised)

\* RadiozoaSensor.__init__, which runs _create_sensors
CreateSensors ==
    /\ acall.op = "none"
    /\ \E outs \in [Dev -> StartOutcomes] :
        LET r == CreateFrom(0, [d \in Dev |-> "null"], outs)
        IN  /\ sensors' = r.sensors
            /\ acall' = [op |-> "create", arg |-> 0, outs |-> outs,
                         was |-> FALSE, raised |-> r.raised, ret |-> << >>,
                         invoked |-> {}]
    /\ UNCHANGED << is_ranging, configureVars, loopVars, settingVars >>

NextCreate ==
    \/ CreateSensors
    \/ Built /\ NextArray

SpecCreate == InitCreate /\ [][NextCreate]_vars

\* the driver constructor of table row d raised in the construction
CtorFailed(d) == impl[d] # "None" /\ acall.outs[d] = RAISES

\* C30: the construction of the array returns whichever driver constructors
\* raise; the handle of a row whose constructor raised is absent and every
\* other row has the handle of its variant.
C30_FailedBringUpAbsent ==
    acall.op = "create" =>
        /\ ~ acall.raised
        /\ \A d \in Dev :
            sensors[d] = IF CtorFailed(d) THEN "null" ELSE CreateSensor(impl[d])

\* no call on an array that exists binds, replaces or drops a handle
HandlesPermanent == [][Built => sensors' = sensors]_vars

(* ------------------------------------------------------------------ *)
(* Configure: what a reported success means                            *)
(* ------------------------------------------------------------------ *)

\* the table has no empty slot
AllPresent == \A d \in Dev : impl[d] # "None"

\* C31: when a call over a table without empty slots returns True, every
\* sensor is enabled and answers at the address of its own device, so no
\* two sensors answer at one address and none answers at the address of
\* another device.
C31_SuccessIsCorrect ==
    (pc = "done" /\ result = "True" /\ AllPresent)
        => /\ \A d \in Dev : pin[d] = "high" /\ addr[d] = i2c_address(d)
           /\ \A d, e \in Dev : d # e => addr[d] # addr[e]

C31_Witness ==
    /\ pc = "done"
    /\ result = "True"
    /\ AllPresent
    /\ "bringup" \in phases
    /\ attempt > 0
    /\ \A d \in Dev : wr[d] = "ok"

\* a whole rate in hertz of which 1000 is a multiple
DividesThousand(r10) == r10 % 10 = 0 /\ r10 > 0 /\ 10000 % r10 = 0

\* C32: poll_rate_hz read after set_poll_rate_hz(r) has succeeded for a rate
\* r that divides 1000 returns r, and read with no rate set it returns 20.
C32_RateRoundTrip ==
    rcall.read # NOT_READ =>
        /\ rcall.op = "none" => rcall.read = 20
        /\ (rcall.op = "set" /\ ~ rcall.raised /\ DividesThousand(rcall.rate))
                => rcall.read * 10 = rcall.rate

====
